---- MODULE Spec2Model ----
(***************************************************************************)
(* Model of python/mxnet/symbol/op.py: _make_atomic_symbol_function, the   *)
(* synthesis of one callable per registered operator, and the two bodies   *)
(* (variadic-node and keyword-only) that such a callable runs per call.    *)
(*                                                                         *)
(* Python values are records [kind, v]; a dict is the sequence of its      *)
(* [k, v] items in insertion order; a type tag is the sequence of its      *)
(* tokens, so that startswith / endswith look at the first / last token.   *)
(* Argument names of the registry are non-empty, so the empty string       *)
(* stands for Python's None in dtype_name and arr_name.                    *)
(***************************************************************************)
EXTENDS Integers, Sequences, FiniteSets, Bags, TLC

VARIABLES
    meta,         \* registry metadata of the operator (MXSymbolGetAtomicSymbolInfo)
    synth,        \* what _make_atomic_symbol_function made of it
    attr_current, \* AttrScope.current: the attributes of the active scope
    attr_saved,   \* the _old_scope chain of the with-blocks of the main thread
    nm_current,   \* NameManager.current: the active manager
    nm_counter,   \* per manager, its counter per hint
    issued,       \* bag of the names the managers generated
    prev,         \* the call before `last`, kept while it is repeated
    last,         \* the call in progress or just made, with its FFI request
    th_pc,        \* per thread, the place in its with-block
    th_old_attr,  \* per thread, its AttrScope object's _old_scope
    th_old_nm,    \* per thread, its NameManager object's _old_manager
    th_attrs,     \* per thread, what AttrScope.current.get(attr) returned
    th_req,       \* per thread, the FFI request of its last call
    th_round      \* per thread, the with-blocks it has left

vars == <<meta, synth, attr_current, attr_saved, nm_current, nm_counter, issued,
          prev, last, th_pc, th_old_attr, th_old_nm, th_attrs, th_req, th_round>>

callVars == <<attr_current, attr_saved, nm_current, nm_counter, issued, prev, last>>
threadVars == <<th_pc, th_old_attr, th_old_nm, th_attrs, th_req, th_round>>

-----------------------------------------------------------------------------
(* Bounds *)

MaxArgs == 3
MaxPos == 2
MaxCount == 2
MaxDepth == 1
MaxRounds == 1

-----------------------------------------------------------------------------
(* Python values *)

Sym(id) == [kind |-> "Symbol", v |-> id]
PyStr(s) == [kind |-> "str", v |-> s]
PyInt(n) == [kind |-> "int", v |-> ToString(n)]
Null == [kind |-> "_Null", v |-> "_Null"]
PyNone == [kind |-> "None", v |-> "None"]
Absent == [kind |-> "absent", v |-> ""]

isinstance_SymbolBase(x) == x.kind = "Symbol"

Item(k, x) == [k |-> k, v |-> x]

DictHas(d, k) == \E i \in DOMAIN d : d[i].k = k

DictGet(d, k, default) ==
    IF DictHas(d, k) THEN d[CHOOSE i \in DOMAIN d : d[i].k = k].v ELSE default

DictPop(d, k) == SelectSeq(d, LAMBDA e : e.k # k)

DictSet(d, k, x) ==
    IF DictHas(d, k)
    THEN [i \in DOMAIN d |-> IF d[i].k = k THEN Item(k, x) ELSE d[i]]
    ELSE Append(d, Item(k, x))

RECURSIVE DictUpdate(_, _)
DictUpdate(d, e) ==
    IF e = <<>> THEN d
    ELSE DictUpdate(DictSet(d, Head(e).k, Head(e).v), Tail(e))

SeqKeys(d) == [i \in DOMAIN d |-> d[i].k]
SeqVals(d) == [i \in DOMAIN d |-> d[i].v]

-----------------------------------------------------------------------------
(* Synthesis: the classification loop of _make_atomic_symbol_function *)

startswith(atype, tok) == Len(atype) > 0 /\ atype[1] = tok
endswith(atype, tok) == Len(atype) > 0 /\ atype[Len(atype)] = tok

ClassifyStart ==
    [dtype_name |-> "", arr_name |-> "", ndarg_names |-> <<>>,
     kwarg_names |-> <<>>, raised |-> FALSE]

ClassifyArg(st, arg) ==
    IF st.raised THEN st
    ELSE IF arg.name = "dtype" THEN [st EXCEPT !.dtype_name = arg.name]
    ELSE IF startswith(arg.atype, "NDArray") \/ startswith(arg.atype, "Symbol")
    THEN IF st.arr_name # ""
         THEN [st EXCEPT !.raised = TRUE]
         ELSE IF endswith(arg.atype, "[]")
              THEN [st EXCEPT !.arr_name = arg.name]
              ELSE [st EXCEPT !.ndarg_names = Append(@, arg.name)]
    ELSE [st EXCEPT !.kwarg_names = Append(@, arg.name)]

RECURSIVE ClassifyLoop(_, _)
ClassifyLoop(st, args) ==
    IF args = <<>> THEN st
    ELSE ClassifyLoop(ClassifyArg(st, Head(args)), Tail(args))

lower(func_name) ==
    CASE func_name = "Concat" -> "concat"
      [] func_name = "Dense" -> "dense"
      [] OTHER -> func_name

make_atomic_symbol_function(m) ==
    LET st == ClassifyLoop(ClassifyStart, m.args)
    IN [status |-> IF st.raised THEN "AssertionError" ELSE "ok",
        convention |-> IF st.raised THEN "none"
                       ELSE IF st.arr_name # "" THEN "variadic" ELSE "keyword",
        dtype_name |-> st.dtype_name,
        arr_name |-> st.arr_name,
        ndarg_names |-> st.ndarg_names,
        kwarg_names |-> st.kwarg_names,
        key_var_num_args |-> m.key_var_num_args,
        hint |-> lower(m.func_name)]

NotSynthesized ==
    [status |-> "pending", convention |-> "none", dtype_name |-> "",
     arr_name |-> "", ndarg_names |-> <<>>, kwarg_names |-> <<>>,
     key_var_num_args |-> "", hint |-> ""]

-----------------------------------------------------------------------------
(* Registry metadata *)

T_SymArr == <<"Symbol", "[]">>
T_NDSymArr == <<"NDArray", "-or-", "Symbol", "[]">>
T_NDSym == <<"NDArray", "-or-", "Symbol">>
T_Int == <<"int">>
T_Str == <<"string">>

Arg(n, t) == [name |-> n, atype |-> t]

ArgNames == {"data", "dtype", "dim", "weight"}
ArgTypes == {T_SymArr, T_NDSym, T_Int}

RECURSIVE ArgLists(_)
ArgLists(n) ==
    IF n = 0 THEN {<<>>}
    ELSE LET shorter == ArgLists(n - 1)
         IN shorter \cup
            {Append(l, Arg(nm, t)) : l \in {s \in shorter : Len(s) = n - 1},
                                     nm \in ArgNames, t \in ArgTypes}

DistinctNames(l) == \A i, j \in DOMAIN l : l[i].name = l[j].name => i = j


AllMetas ==
    {[func_name |-> "Concat", args |-> l, key_var_num_args |-> "num_args"] :
        l \in {a \in ArgLists(MaxArgs) : DistinctNames(a)}}

\* Two registry entries, one per calling convention.
ConcatMeta ==
    [func_name |-> "Concat",
     args |-> <<Arg("data", T_NDSymArr), Arg("num_args", T_Int),
                Arg("dim", T_Int), Arg("dtype", T_Str)>>,
     key_var_num_args |-> "num_args"]

DenseMeta ==
    [func_name |-> "Dense",
     args |-> <<Arg("data", T_NDSym), Arg("dtype", T_Str),
                Arg("input_dim", T_Int), Arg("output_dim", T_Int)>>,
     key_var_num_args |-> ""]

Registry == {ConcatMeta, DenseMeta}

Hints == {lower(m.func_name) : m \in Registry}

-----------------------------------------------------------------------------
(* The scoped context providers and numpy, as the callable uses them *)

\* The explicit attr= dictionaries callers pass, by name.
AttrItems(x) ==
    CASE x.v = "A1" -> <<Item("ctx", PyStr("cpu")), Item("dim", PyStr("7"))>>
      [] OTHER -> <<>>

AttrDict(n) == [kind |-> "dict", v |-> n]

\* AttrScope.get(attr): the scope's attributes, updated with the explicit ones.
AttrScopeGet(cur, attr) ==
    IF attr.kind = "dict" THEN DictUpdate(cur, AttrItems(attr)) ELSE cur

GivenName(s) == [given |-> s, hint |-> "", n |-> 0]
AutoName(h, k) == [given |-> "", hint |-> h, n |-> k]
NoName == GivenName("")

\* NameManager.get(name, hint): the caller's name, or hint + counter.
NameManagerGet(counter, name, hint) ==
    IF name.kind = "str"
    THEN [name |-> GivenName(name.v), counter |-> counter, generated |-> FALSE]
    ELSE [name |-> AutoName(hint, counter[hint]),
          counter |-> [counter EXCEPT ![hint] = @ + 1],
          generated |-> TRUE]

TypeError == [kind |-> "TypeError", v |-> ""]

\* numpy.dtype(x).name
numpy_dtype_name(x) ==
    CASE x = PyStr("float32") -> PyStr("float32")
      [] x = PyStr("f4") -> PyStr("float32")
      [] x = PyStr("float") -> PyStr("float64")
      [] x = PyNone -> PyStr("float64")
      [] OTHER -> TypeError

-----------------------------------------------------------------------------
(* The steps the two generated bodies share *)

\* kwargs.update(AttrScope.current.get(attr))
MergeAttr(kwargs, attrs) == DictUpdate(kwargs, attrs)

\* for k, v in kwargs.items(): node values to sym_kwargs, the rest to keys/vals
Partition(kwargs) ==
    LET nodes == SelectSeq(kwargs, LAMBDA e : isinstance_SymbolBase(e.v))
        rest == SelectSeq(kwargs, LAMBDA e : ~isinstance_SymbolBase(e.v))
    IN [sym_kwargs |-> nodes, keys |-> SeqKeys(rest), vals |-> SeqVals(rest)]

\* The name made from the hint alone, the manager not consulted.
ResolveNameFixed(counter, name, hint) ==
    IF name.kind = "str" THEN NameManagerGet(counter, name, hint)
    ELSE [name |-> AutoName(hint, 0), counter |-> counter, generated |-> TRUE]

\* name = NameManager.current.get(name, '<func_name.lower()>')
ResolveName(counter, name, hint) == NameManagerGet(counter, name, hint)

NoRequest ==
    [sym_args |-> <<>>, sym_kwargs |-> <<>>, keys |-> <<>>, vals |-> <<>>]

\* A body that resolves the name before it checks its arguments.
OutcomeNameFirst(err, counter, res, req) ==
    IF err # ""
    THEN [status |-> err, created |-> FALSE, request |-> NoRequest,
          name |-> NoName, counter |-> res.counter, generated |-> res.generated]
    ELSE [status |-> "ok", created |-> TRUE, request |-> req,
          name |-> res.name, counter |-> res.counter, generated |-> res.generated]

\* The order of a body: the checks that raise come before the name is resolved
\* and before _symbol_creator is called.
Outcome(err, counter, res, req) ==
    IF err # ""
    THEN [status |-> err, created |-> FALSE, request |-> NoRequest,
          name |-> NoName, counter |-> counter, generated |-> FALSE]
    ELSE [status |-> "ok", created |-> TRUE, request |-> req,
          name |-> res.name, counter |-> res.counter, generated |-> res.generated]

-----------------------------------------------------------------------------
(* The variadic-node body: positional nodes and a keyword mapping *)

\* if '<K>' not in kwargs: keys.append('<K>'); vals.append(len(sym_args) + len(sym_kwargs))
InjectKeyVar(sig, kwargs, sym_args, part) ==
    IF sig.key_var_num_args # "" /\ ~DictHas(kwargs, sig.key_var_num_args)
    THEN [part EXCEPT !.keys = Append(@, sig.key_var_num_args),
                      !.vals = Append(@, PyInt(Len(sym_args) + Len(part.sym_kwargs)))]
    ELSE part

VariadicBody(sig, args, kw, cur, counter) ==
    LET badpos == \E i \in DOMAIN args : ~isinstance_SymbolBase(args[i])
        conv == sig.dtype_name # "" /\ DictHas(kw, sig.dtype_name)
        dt == IF conv THEN numpy_dtype_name(DictGet(kw, sig.dtype_name, Null))
              ELSE Null
        kw1 == IF conv THEN DictSet(kw, sig.dtype_name, dt) ELSE kw
        attr == DictGet(kw1, "attr", PyNone)
        kw2 == MergeAttr(DictPop(kw1, "attr"), AttrScopeGet(cur, attr))
        name == DictGet(kw2, "name", PyNone)
        res == ResolveName(counter, name, sig.hint)
        kw3 == DictPop(DictPop(kw2, "name"), "out")
        part == InjectKeyVar(sig, kw3, args, Partition(kw3))
        err == IF badpos THEN "AssertionError"
               ELSE IF dt = TypeError THEN "TypeError" ELSE ""
    IN Outcome(err, counter, res,
               [sym_args |-> args, sym_kwargs |-> part.sym_kwargs,
                keys |-> part.keys, vals |-> part.vals])

-----------------------------------------------------------------------------
(* The keyword-only body: a parameter per declared argument, and an open tail *)

Declared(sig) ==
    {sig.ndarg_names[i] : i \in DOMAIN sig.ndarg_names}
    \cup {sig.kwarg_names[i] : i \in DOMAIN sig.kwarg_names}
    \cup (IF sig.dtype_name # "" THEN {sig.dtype_name} ELSE {})
    \cup {"name", "attr", "out"}

\* Python's binding of the caller's keywords: the open tail of undeclared ones
OpenTail(sig, kw) == SelectSeq(kw, LAMBDA e : e.k \notin Declared(sig))

\* if <name> is not None: assert isinstance(<name>, SymbolBase); sym_kwargs['<name>'] = <name>
RECURSIVE NodeArgs(_, _, _)
NodeArgs(names, kw, acc) ==
    IF names = <<>> \/ acc.raised THEN acc
    ELSE LET x == DictGet(kw, Head(names), PyNone)
         IN NodeArgs(Tail(names), kw,
                IF x = PyNone THEN acc
                ELSE IF ~isinstance_SymbolBase(x) THEN [acc EXCEPT !.raised = TRUE]
                ELSE [acc EXCEPT !.sym_kwargs = DictSet(@, Head(names), x)])

\* The scalars in the order of the caller's keywords instead.
EmitScalarsCallOrder(names, kw, part) ==
    LET set == SelectSeq(kw, LAMBDA e : (\E i \in DOMAIN names : names[i] = e.k)
                                        /\ e.v # Null)
    IN [part EXCEPT !.keys = @ \o SeqKeys(set), !.vals = @ \o SeqVals(set)]

\* if <name> is not _Null: keys.append('<name>'); vals.append(<name>)
RECURSIVE EmitScalars(_, _, _)
EmitScalars(names, kw, part) ==
    IF names = <<>> THEN part
    ELSE LET x == DictGet(kw, Head(names), Null)
         IN EmitScalars(Tail(names), kw,
                IF x = Null THEN part
                ELSE [part EXCEPT !.keys = Append(@, Head(names)),
                                  !.vals = Append(@, x)])

\* if dtype is not _Null: keys.append('dtype'); vals.append(_numpy.dtype(dtype).name)
EmitDtype(sig, kw, part) ==
    LET x == IF sig.dtype_name # "" THEN DictGet(kw, sig.dtype_name, Null) ELSE Null
    IN IF x = Null THEN part
       ELSE [part EXCEPT !.keys = Append(@, sig.dtype_name),
                         !.vals = Append(@, numpy_dtype_name(x))]

KeywordBody(sig, kw, cur, counter) ==
    LET attr == DictGet(kw, "attr", PyNone)
        kwargs == MergeAttr(OpenTail(sig, kw), AttrScopeGet(cur, attr))
        part0 == Partition(kwargs)
        nd == NodeArgs(sig.ndarg_names, kw,
                       [sym_kwargs |-> part0.sym_kwargs, raised |-> FALSE])
        part1 == [part0 EXCEPT !.sym_kwargs = nd.sym_kwargs]
        part2 == EmitScalars(sig.kwarg_names, kw, part1)
        part3 == EmitDtype(sig, kw, part2)
        dt == IF sig.dtype_name # "" THEN DictGet(kw, sig.dtype_name, Null) ELSE Null
        res == ResolveName(counter, DictGet(kw, "name", PyNone), sig.hint)
        err == IF nd.raised THEN "AssertionError"
               ELSE IF dt # Null /\ numpy_dtype_name(dt) = TypeError
                    THEN "TypeError" ELSE ""
    IN Outcome(err, counter, res,
               [sym_args |-> <<>>, sym_kwargs |-> part3.sym_kwargs,
                keys |-> part3.keys, vals |-> part3.vals])

-----------------------------------------------------------------------------
(* Calls the model makes *)

Opt(k, x) == IF x = Absent THEN <<>> ELSE <<Item(k, x)>>

RECURSIVE PosLists(_)
PosLists(n) ==
    IF n = 0 THEN {<<>>}
    ELSE LET shorter == PosLists(n - 1)
         IN shorter \cup
            {Append(l, x) : l \in {s \in shorter : Len(s) = n - 1},
                            x \in {Sym("x"), PyStr("s")}}

\* Keywords of a call of Concat, in the order the caller writes them.
VariadicCalls ==
    {Opt("name", n) \o Opt("dim", d) \o Opt("num_args", k) \o Opt("dtype", t)
        \o Opt("extra", e) \o Opt("attr", a) :
        n \in {Absent, PyStr("n")},
        d \in {Absent, Null, PyInt(1)},
        k \in {Absent, PyStr("5"), Sym("y")},
        t \in {Absent, PyStr("f4")},
        e \in {Absent, Sym("y")},
        a \in {Absent, AttrDict("A1")}}

\* Keywords of a call of Dense, written in the reverse of the declaration order.
KeywordCalls ==
    {Opt("name", n) \o Opt("output_dim", o) \o Opt("input_dim", i)
        \o Opt("dtype", t) \o Opt("data", x) \o Opt("ctx", c) \o Opt("extra", e)
        \o Opt("attr", a) :
        n \in {Absent, PyStr("n")},
        o \in {Absent, PyInt(2)},
        i \in {Absent, Null, PyInt(1), Sym("y")},
        t \in {Absent, PyStr("f4"), Sym("x")},
        x \in {Absent, Sym("x"), PyStr("s")},
        c \in {Absent, PyStr("mine")},
        e \in {Absent, Sym("y")},
        a \in {Absent, AttrDict("A1")}}

\* Attributes of the with AttrScope(...) blocks the main thread enters.
AmbientAttrs ==
    {<<Item("ctx", PyStr("gpu"))>>,
     <<Item("num_args", PyStr("9")), Item("input_dim", PyStr("9"))>>}

Threads == {1, 2}
Managers == {0} \cup Threads

ThreadAttrs(t) == <<Item("ctx", PyStr(IF t = 1 THEN "t1" ELSE "t2"))>>

NoCall ==
    [status |-> "none", args |-> <<>>, kw |-> <<>>, sym_args |-> <<>>,
     sym_kwargs |-> <<>>, keys |-> <<>>, vals |-> <<>>, name |-> NoName,
     created |-> FALSE, mgr |-> 0]

CallRecord(args, kw, out, mgr) ==
    [status |-> out.status, args |-> args, kw |-> kw,
     sym_args |-> out.request.sym_args, sym_kwargs |-> out.request.sym_kwargs,
     keys |-> out.request.keys, vals |-> out.request.vals, name |-> out.name,
     created |-> out.created, mgr |-> mgr]

ZeroCounter == [h \in Hints |-> 0]

-----------------------------------------------------------------------------
(* Actions *)

\* _init_op_module calls _make_atomic_symbol_function for the operator.
Synthesize ==
    /\ synth.status = "pending"
    /\ synth' = make_atomic_symbol_function(meta)
    /\ UNCHANGED <<meta, callVars, threadVars>>

\* The generated function, called with positional args and keywords kw.
Body(sig, args, kw, cur, counter) ==
    IF sig.convention = "variadic"
    THEN VariadicBody(sig, args, kw, cur, counter)
    ELSE KeywordBody(sig, kw, cur, counter)

Call(args, kw) ==
    LET out == Body(synth, args, kw, attr_current, nm_counter[nm_current])
    IN /\ out.counter[synth.hint] <= MaxCount
       /\ last' = CallRecord(args, kw, out, nm_current)
       /\ nm_counter' = [nm_counter EXCEPT ![nm_current] = out.counter]
       /\ issued' = IF out.generated THEN issued (+) SetToBag({out.name})
                    ELSE issued

InvokeVariadic ==
    /\ synth.status = "ok" /\ synth.convention = "variadic"
    /\ last.status = "none"
    /\ \E args \in PosLists(MaxPos), kw \in VariadicCalls : Call(args, kw)
    /\ UNCHANGED <<meta, synth, attr_current, attr_saved, nm_current, prev,
                   threadVars>>

InvokeKeyword ==
    /\ synth.status = "ok" /\ synth.convention = "keyword"
    /\ last.status = "none"
    /\ \E kw \in KeywordCalls : Call(<<>>, kw)
    /\ UNCHANGED <<meta, synth, attr_current, attr_saved, nm_current, prev,
                   threadVars>>

\* The caller makes the call it has just made once more.
Repeat ==
    /\ last.status # "none" /\ prev.status = "none"
    /\ prev' = last
    /\ Call(last.args, last.kw)
    /\ UNCHANGED <<meta, synth, attr_current, attr_saved, nm_current, threadVars>>

\* The caller is done with the requests it has looked at.
Return ==
    /\ last.status # "none"
    /\ last' = NoCall /\ prev' = NoCall
    /\ UNCHANGED <<meta, synth, attr_current, attr_saved, nm_current, nm_counter,
                   issued, threadVars>>

\* with AttrScope(...): entry merges the enclosing scope's attributes
EnterScope ==
    /\ synth.status = "ok" /\ last.status = "none"
    /\ Len(attr_saved) < MaxDepth
    /\ attr_saved' = Append(attr_saved, attr_current)
    /\ \E a \in AmbientAttrs : attr_current' = DictUpdate(attr_current, a)
    /\ UNCHANGED <<meta, synth, nm_current, nm_counter, issued, prev, last,
                   threadVars>>

ExitScope ==
    /\ last.status = "none"
    /\ attr_saved # <<>>
    /\ attr_current' = attr_saved[Len(attr_saved)]
    /\ attr_saved' = SubSeq(attr_saved, 1, Len(attr_saved) - 1)
    /\ UNCHANGED <<meta, synth, nm_current, nm_counter, issued, prev, last,
                   threadVars>>

InitCommon ==
    /\ attr_current = <<>>
    /\ attr_saved = <<>>
    /\ nm_current = 0
    /\ nm_counter = [m \in Managers |-> ZeroCounter]
    /\ issued = EmptyBag
    /\ prev = NoCall
    /\ last = NoCall
    /\ th_pc = [t \in Threads |-> "start"]
    /\ th_old_attr = [t \in Threads |-> <<>>]
    /\ th_old_nm = [t \in Threads |-> 0]
    /\ th_attrs = [t \in Threads |-> <<>>]
    /\ th_req = [t \in Threads |-> NoCall]
    /\ th_round = [t \in Threads |-> 0]

Init ==
    /\ meta \in Registry
    /\ synth = NotSynthesized
    /\ InitCommon

Next ==
    \/ Synthesize
    \/ EnterScope
    \/ ExitScope
    \/ InvokeVariadic
    \/ InvokeKeyword
    \/ Repeat
    \/ Return

Spec == Init /\ [][Next]_vars

\* Synthesis alone, over every argument list of the bounded registry.
InitSynth ==
    /\ meta \in AllMetas
    /\ synth = NotSynthesized
    /\ InitCommon

NextSynth == Synthesize

SpecSynth == InitSynth /\ [][NextSynth]_vars

-----------------------------------------------------------------------------
(* Two threads, each building a graph in a with-block of its own:           *)
(*     with AttrScope(ctx=<thread>), NameManager(): <call>                  *)
(* AttrScope.current and NameManager.current are the process-wide objects   *)
(* the generated bodies read; a body reads the first when it merges the     *)
(* attributes and the second when it resolves the name.                     *)

\* The call a thread makes: one node, no scalar, no name, no attr.
ThreadKw == IF synth.convention = "variadic" THEN <<>> ELSE <<Item("data", Sym("x"))>>
ThreadArgs == IF synth.convention = "variadic" THEN <<Sym("x")>> ELSE <<>>

\* AttrScope.__enter__
TEnterAttr(t) ==
    /\ synth.status = "ok"
    /\ th_pc[t] = "start" /\ th_round[t] < MaxRounds
    /\ th_old_attr' = [th_old_attr EXCEPT ![t] = attr_current]
    /\ attr_current' = DictUpdate(attr_current, ThreadAttrs(t))
    /\ th_pc' = [th_pc EXCEPT ![t] = "attr"]
    /\ UNCHANGED <<meta, synth, attr_saved, nm_current, nm_counter, issued, prev,
                   last, th_old_nm, th_attrs, th_req, th_round>>

\* NameManager.__enter__, of a manager the thread has just made
TEnterName(t) ==
    /\ th_pc[t] = "attr"
    /\ th_old_nm' = [th_old_nm EXCEPT ![t] = nm_current]
    /\ nm_current' = t
    /\ nm_counter' = [nm_counter EXCEPT ![t] = ZeroCounter]
    /\ th_pc' = [th_pc EXCEPT ![t] = "name"]
    /\ UNCHANGED <<meta, synth, attr_current, attr_saved, issued, prev, last,
                   th_old_attr, th_attrs, th_req, th_round>>

\* The body up to kwargs.update(AttrScope.current.get(attr))
TCallMerge(t) ==
    /\ th_pc[t] = "name"
    /\ th_attrs' = [th_attrs EXCEPT ![t] = AttrScopeGet(attr_current, PyNone)]
    /\ th_pc' = [th_pc EXCEPT ![t] = "merged"]
    /\ UNCHANGED <<meta, synth, callVars, th_old_attr, th_old_nm, th_req, th_round>>

\* The rest of the body: NameManager.current.get and _symbol_creator
TCallCreate(t) ==
    /\ th_pc[t] = "merged"
    /\ LET out == Body(synth, ThreadArgs, ThreadKw, th_attrs[t],
                       nm_counter[nm_current])
       IN /\ out.counter[synth.hint] <= MaxCount
          /\ th_req' = [th_req EXCEPT
                           ![t] = CallRecord(ThreadArgs, ThreadKw, out, nm_current)]
          /\ nm_counter' = [nm_counter EXCEPT ![nm_current] = out.counter]
          /\ issued' = IF out.generated THEN issued (+) SetToBag({out.name})
                       ELSE issued
    /\ th_pc' = [th_pc EXCEPT ![t] = "called"]
    /\ UNCHANGED <<meta, synth, attr_current, attr_saved, nm_current, prev, last,
                   th_old_attr, th_old_nm, th_attrs, th_round>>

\* NameManager.__exit__
TExitName(t) ==
    /\ th_pc[t] = "called"
    /\ nm_current' = th_old_nm[t]
    /\ th_pc' = [th_pc EXCEPT ![t] = "unnamed"]
    /\ UNCHANGED <<meta, synth, attr_current, attr_saved, nm_counter, issued, prev,
                   last, th_old_attr, th_old_nm, th_attrs, th_req, th_round>>

\* AttrScope.__exit__
TExitAttr(t) ==
    /\ th_pc[t] = "unnamed"
    /\ attr_current' = th_old_attr[t]
    /\ th_pc' = [th_pc EXCEPT ![t] = "start"]
    /\ th_round' = [th_round EXCEPT ![t] = @ + 1]
    /\ UNCHANGED <<meta, synth, attr_saved, nm_current, nm_counter, issued, prev,
                   last, th_old_attr, th_old_nm, th_attrs, th_req>>

NextThreads ==
    \/ Synthesize
    \/ \E t \in Threads : TEnterAttr(t)
    \/ \E t \in Threads : TEnterName(t)
    \/ \E t \in Threads : TCallMerge(t)
    \/ \E t \in Threads : TCallCreate(t)
    \/ \E t \in Threads : TExitName(t)
    \/ \E t \in Threads : TExitAttr(t)

SpecThreads == Init /\ [][NextThreads]_vars

-----------------------------------------------------------------------------
(* What the claims speak of, read off the state *)

\* The attributes the call in `last` merged: no scope is entered or left
\* while `last` holds a call.
MergedAttrs == AttrScopeGet(attr_current, DictGet(last.kw, "attr", PyNone))

\* Every value the request forwards under key k.
Forwarded(r, k) ==
    {r.vals[i] : i \in {j \in DOMAIN r.keys : r.keys[j] = k}}
    \cup {r.sym_kwargs[i].v : i \in {j \in DOMAIN r.sym_kwargs : r.sym_kwargs[j].k = k}}

IsNodeType(arg) ==
    startswith(arg.atype, "NDArray") \/ startswith(arg.atype, "Symbol")

\* The classes of section 3 of the specification, by declared argument.
IsVariadicNode(arg) ==
    arg.name # "dtype" /\ IsNodeType(arg) /\ endswith(arg.atype, "[]")
IsPlainScalar(arg) == arg.name # "dtype" /\ ~IsNodeType(arg)
IsDtypeScalar(arg) == arg.name = "dtype"

\* The parameters of a keyword-only callable: the declared arguments and the
\* reserved name, attr and out.
DeclaredNames ==
    {meta.args[i].name : i \in DOMAIN meta.args} \cup {"name", "attr", "out"}

DeclIndex(k) == CHOOSE i \in DOMAIN meta.args : meta.args[i].name = k
PlainNames == {meta.args[i].name : i \in {j \in DOMAIN meta.args : IsPlainScalar(meta.args[j])}}
ScalarNames ==
    {meta.args[i].name :
        i \in {j \in DOMAIN meta.args :
                  IsPlainScalar(meta.args[j]) \/ IsDtypeScalar(meta.args[j])}}

-----------------------------------------------------------------------------
(* Claims *)

\* C1: in every call that reaches _symbol_creator, no entry of vals is a node
\* reference (a keyword whose value is a node goes to sym_kwargs, also when it
\* is bound to a declared PlainScalar parameter).
C1_NoNodeInVals ==
    last.created => \A i \in DOMAIN last.vals : ~isinstance_SymbolBase(last.vals[i])

\* C2: for every key the caller passes explicitly and that the merged attributes
\* also hold, the request forwards the caller's value and not the attribute's.
C2_CallerValueWins ==
    last.created =>
        \A i \in DOMAIN last.kw :
            LET e == last.kw[i]
            IN (/\ e.k \notin {"name", "attr", "out", "dtype"}
                /\ e.v # Null
                /\ DictHas(MergedAttrs, e.k))
               => Forwarded(last, e.k) = {e.v}

\* C3: synthesis fails exactly when the declared arguments hold more than one
\* node-array argument, or a node-array argument that is not the last one.
C3_SynthesisFailsIffMisplaced ==
    LET arrs == {i \in DOMAIN meta.args : IsVariadicNode(meta.args[i])}
        misplaced == Cardinality(arrs) > 1
                     \/ \E i \in arrs : i # Len(meta.args)
    IN synth.status # "pending" => (synth.status = "AssertionError" <=> misplaced)

\* C4: a variadic callable with key_var_num_args K forwards exactly one entry
\* (K, number of positional nodes + number of node keywords) when the caller
\* gives no K, and the caller's own value for K, unchanged, when it gives one.
C4_KeyVarInjected ==
    LET K == synth.key_var_num_args
        at == {i \in DOMAIN last.keys : last.keys[i] = K}
    IN (last.created /\ synth.convention = "variadic" /\ K # "") =>
        IF ~DictHas(last.kw, K)
        THEN /\ Cardinality(at) = 1
             /\ \A i \in at :
                   last.vals[i] = PyInt(Len(last.sym_args) + Len(last.sym_kwargs))
        ELSE Forwarded(last, K) = {DictGet(last.kw, K, Null)}

\* C5: no PlainScalar or DtypeScalar argument whose value is _Null appears in
\* keys/vals of a request, in either convention.
C5_NoNullInVals ==
    last.created =>
        \A i \in DOMAIN last.keys :
            last.keys[i] \in ScalarNames => last.vals[i] # Null

\* C6: a call that fails on a non-node value where a node is required issues no
\* FFI request and leaves the Name Manager and the Attribute Scope as they were.
C6_FailureBeforeFfi ==
    [][last'.status = "AssertionError" =>
          /\ ~last'.created
          /\ last'.keys = <<>> /\ last'.vals = <<>>
          /\ last'.sym_args = <<>> /\ last'.sym_kwargs = <<>>
          /\ nm_counter' = nm_counter /\ nm_current' = nm_current
          /\ issued' = issued
          /\ attr_current' = attr_current /\ attr_saved' = attr_saved]_vars

C6_Witness ==
    /\ last.status = "AssertionError"
    /\ synth.convention = "keyword"
    /\ nm_counter[nm_current][synth.hint] > 0
    /\ attr_current # <<>>

C8_ThreadsIsolated ==
    \A t \in Threads :
        th_req[t].status = "ok" =>
            /\ Forwarded(th_req[t], "ctx") = {ThreadAttrs(t)[1].v}
            /\ th_req[t].mgr = t

\* C9: each key name occurs at most once in keys of a request.
C9_KeysUnique ==
    last.created =>
        \A i, j \in DOMAIN last.keys : last.keys[i] = last.keys[j] => i = j

\* C10: keys of a keyword-only call are the non-node entries of the merged open
\* tail in arrival order, then the declared PlainScalar parameters that are set,
\* in declaration order, then dtype if set; vals is aligned with keys.
C10_KeywordLayout ==
    LET own == SelectSeq(last.kw, LAMBDA e : e.k \notin DeclaredNames)
        merged == [i \in DOMAIN own |->
                      Item(own[i].k, DictGet(MergedAttrs, own[i].k, own[i].v))]
                  \o SelectSeq(MergedAttrs, LAMBDA e : ~DictHas(own, e.k))
        tail == SelectSeq(merged, LAMBDA e : ~isinstance_SymbolBase(e.v))
        set == {k \in PlainNames : DictGet(last.kw, k, Null) # Null}
        dt == DictGet(last.kw, "dtype", Null)
        hasdt == "dtype" \in ScalarNames /\ dt # Null
        nt == Len(tail)
        np == Cardinality(set)
    IN (last.created /\ synth.convention = "keyword") =>
        /\ Len(last.keys) = Len(last.vals)
        /\ Len(last.keys) = nt + np + (IF hasdt THEN 1 ELSE 0)
        /\ \A i \in 1..nt : last.keys[i] = tail[i].k /\ last.vals[i] = tail[i].v
        /\ \A i \in (nt + 1)..(nt + np) :
              /\ last.keys[i] \in set
              /\ last.vals[i] = DictGet(last.kw, last.keys[i], Null)
              /\ \A j \in (nt + 1)..(nt + np) :
                    i < j => DeclIndex(last.keys[i]) < DeclIndex(last.keys[j])
        /\ hasdt => /\ last.keys[nt + np + 1] = "dtype"
                    /\ last.vals[nt + np + 1] = numpy_dtype_name(dt)

C10_Witness ==
    /\ last.created /\ synth.convention = "keyword"
    /\ Len(last.keys) = 5
    /\ last.keys[5] = "dtype"
    /\ last.keys[3] = "input_dim" /\ last.keys[4] = "output_dim"
    /\ DeclIndex("dtype") < DeclIndex("input_dim")

====
